---- MODULE Spec2Model ----
(***************************************************************************)
(* Model of glue_astronomy/translators/spectrum1d.py: the PaddedSpectrumWCS *)
(* adapter and the SpecutilsHandler translator (to_data / to_object).       *)
(*                                                                         *)
(* Python objects are records.  Array axes are numbered from 0 as in the   *)
(* source; axis i of an array is position i+1 of its shape and of every    *)
(* index tuple.  Collaborators that live outside the file (glue's Data,    *)
(* astropy's WCS classes, gwcs, specutils' Spectrum1D) appear only through *)
(* the narrow interface the file uses.                                     *)
(***************************************************************************)
EXTENDS Integers, Sequences, FiniteSets, TLC

VARIABLES spectrum, data, call, result, adapter

vars == <<spectrum, data, call, result, adapter>>

(***************************************************************************)
(* Bounds of the model.                                                    *)
(***************************************************************************)
\* Largest dimensionality of a flux array handed to the translator.
MaxNdim == 2
\* Number of samples along the spectral axis of every array.
SpecLen == 3
\* Number of samples along every other axis.
SpatLen == 2
\* Largest target dimensionality of a directly constructed adapter.
MaxPadDim == 4

(***************************************************************************)
(* Python values.                                                          *)
(***************************************************************************)
None == [kind |-> "None"]

\* A dict key that is not present (for the integer-valued key).
NoKey == 0 - 1

Abs(n) == IF n < 0 THEN 0 - n ELSE n

Min(S) == CHOOSE m \in S : \A n \in S : m <= n

RECURSIVE Ascending(_)
\* The elements of a finite set of integers as an ascending sequence.
Ascending(S) == IF S = {} THEN <<>>
                ELSE LET m == Min(S) IN <<m>> \o Ascending(S \ {m})

RECURSIVE SumSeq(_)
SumSeq(s) == IF s = <<>> THEN 0 ELSE Head(s) + SumSeq(Tail(s))

\* seq[::-1]
Reverse(s) == [i \in 1..Len(s) |-> s[Len(s) + 1 - i]]

(***************************************************************************)
(* numpy arrays: a shape and a value for every index tuple.  dtype tells   *)
(* raw numbers ("raw"), booleans ("bool") and the cells of a collapsed     *)
(* array ("stat") apart.                                                   *)
(***************************************************************************)
RECURSIVE Indices(_)
\* np.ndindex(*shape): every index tuple of an array of this shape.
Indices(shape) ==
    IF shape = <<>> THEN {<<>>}
    ELSE LET n == Len(shape)
         IN  {Append(idx, i) : idx \in Indices(SubSeq(shape, 1, n - 1)),
                              i \in 0..(shape[n] - 1)}

ndarray(dtype, shape, at) ==
    [kind |-> "ndarray", dtype |-> dtype, shape |-> shape, at |-> at]

\* Position of an index tuple in C order.
RECURSIVE Lin(_, _)
Lin(idx, shape) ==
    IF idx = <<>> THEN 0
    ELSE LET n == Len(idx)
         IN  idx[n] + shape[n] * Lin(SubSeq(idx, 1, n - 1), SubSeq(shape, 1, n - 1))

\* The positions (1-based) of the axes of an n-dimensional array that are not
\* in the set `axes` of axis numbers, ascending.
KeptPos(n, axes) == Ascending({p \in 1..n : (p - 1) \notin axes})

Take(seq, pos) == [i \in 1..Len(pos) |-> seq[pos[i]]]

\* np.all(mask, axes): logical AND over the axes in `axes`.
np_all(mask, axes) ==
    LET n     == Len(mask.shape)
        kept  == KeptPos(n, axes)
        shape == Take(mask.shape, kept)
    IN  ndarray("bool", shape,
                [j \in Indices(shape) |->
                    \A idx \in Indices(mask.shape) :
                        Take(idx, kept) = j => mask.at[idx]])

\* ~mask
np_invert(mask) ==
    ndarray("bool", mask.shape, [idx \in Indices(mask.shape) |-> ~mask.at[idx]])

(***************************************************************************)
(* astropy units: str(unit) and the parse done by u.Quantity(.., unit=s).  *)
(***************************************************************************)
Unit(name) == [kind |-> "Unit", name |-> name]

UnitStr(unit) == unit.name

\* u.Quantity(values, unit=component.units); a component without units
\* gives a dimensionless quantity.
Quantity(values, units) ==
    [kind |-> "Quantity", value |-> values,
     unit |-> IF units = "None" THEN Unit("") ELSE Unit(units)]

(***************************************************************************)
(* Python dicts with string keys.                                          *)
(***************************************************************************)
\* A string-valued slot holding Python's None, and a string key not present.
NoneS == "None"
NoKeyS == "absent"

\* d.get(key, default)
DictGet(d, key, default) == IF key \in DOMAIN d THEN d[key] ELSE default

\* The two metadata keys the translator itself reads and writes; every other
\* key of the open mapping is carried along untouched.
EmptyMeta == [spectral_axis_index |-> NoKey, uncertainty_type |-> NoKeyS]

HasKey(meta, key) ==
    IF key = "spectral_axis_index" THEN meta[key] # NoKey ELSE meta[key] # NoKeyS

\* meta.update(other): every key of `other` is written, present or not before.
MetaUpdate(meta, other) ==
    [key \in DOMAIN meta |-> IF HasKey(other, key) THEN other[key] ELSE meta[key]]

UNCERT_REF == [k \in {"std", "var", "ivar"} |->
                 CASE k = "std"  -> "StdDevUncertainty"
                   [] k = "var"  -> "VarianceUncertainty"
                   [] k = "ivar" -> "InverseVariance"]

UCD_TO_SPECTRAL_NAME ==
    ("em.freq" :> "Frequency") @@ ("em.energy" :> "Energy") @@
    ("em.wavenumber" :> "Wavenumber") @@ ("em.wl" :> "Wavelength") @@
    ("spect.dopplerVeloc.radio" :> "Velocity") @@
    ("spect.dopplerVeloc.opt" :> "Velocity") @@
    ("spect.dopplerVeloc" :> "Velocity") @@ ("src.redshift" :> "Redshift") @@
    ("custom:spect.doplerVeloc.beta" :> "Beta")

(***************************************************************************)
(* Coordinate systems.  `kind` is the runtime class the isinstance chain   *)
(* of to_object dispatches on.  The world axes are listed in WCS order,    *)
(* the reverse of array order: array axis a of an n-dimensional system is  *)
(* WCS position n - a.  `saxis` is the array axis the spectral world       *)
(* coordinate runs along and `sol` names the spectral solution.            *)
(***************************************************************************)
\* A low-level coordinate system as the external libraries provide it.
CoordSys(kind, n, saxis, sol, phys, unit, key, pixname) ==
    [kind |-> kind, world_n_dim |-> n, pixel_n_dim |-> n,
     saxis |-> saxis, sol |-> sol,
     world_axis_physical_types |->
         [i \in 1..n |-> IF i = n - saxis THEN phys ELSE "custom:pos"],
     world_axis_units |-> [i \in 1..n |-> IF i = n - saxis THEN unit ELSE "deg"],
     world_axis_object_components |->
         [i \in 1..n |-> IF i = n - saxis
                         THEN [key |-> key, pos |-> "0", attr |-> "value"]
                         ELSE [key |-> "celestial", pos |-> "0", attr |-> "value"]],
     world_axis_object_classes |->
         IF n > 1 THEN (key :> "SpectralCoord") @@ ("celestial" :> "SkyCoord")
                  ELSE (key :> "SpectralCoord"),
     pixel_axis_names |-> [i \in 1..n |-> IF i = n - saxis THEN pixname ELSE ""]]

\* A slip in __init__: the two-dimensional case is not told apart.
PaddedSpectrumWCSNumbered(wcs, ndim, spectral_axis_index) ==
    [kind |-> "PaddedSpectrumWCS",
     spectral_wcs |-> wcs,
     flux_ndim |-> ndim,
     spectral_axis_index |-> spectral_axis_index,
     spatial_keys |-> [i \in 1..(ndim - 1) |-> "spatial" \o ToString(i - 1)]]

\* PaddedSpectrumWCS.__init__
PaddedSpectrumWCS(wcs, ndim, spectral_axis_index) ==
    [kind |-> "PaddedSpectrumWCS",
     spectral_wcs |-> wcs,
     flux_ndim |-> ndim,
     spectral_axis_index |-> spectral_axis_index,
     spatial_keys |-> IF ndim = 2 THEN <<"spatial">>
                      ELSE [i \in 1..(ndim - 1) |-> "spatial" \o ToString(i - 1)]]

pixel_n_dim(self) == self.flux_ndim

world_n_dim(self) == self.flux_ndim

world_axis_physical_types(self) ==
    <<self.spectral_wcs.world_axis_physical_types[1]>>
        \o [i \in 1..(self.flux_ndim - 1) |-> NoneS]

world_axis_units(self) ==
    <<self.spectral_wcs.world_axis_units[1]>>
        \o [i \in 1..(self.flux_ndim - 1) |-> NoneS]

world_axis_object_components(self) ==
    <<self.spectral_wcs.world_axis_object_components[1]>>
        \o [i \in 1..Len(self.spatial_keys) |->
               [key |-> self.spatial_keys[i], pos |-> "value", attr |-> "value"]]

world_axis_object_classes(self) ==
    LET spectral_key == self.spectral_wcs.world_axis_object_components[1].key
        spatial      == {self.spatial_keys[i] : i \in 1..Len(self.spatial_keys)}
    IN  [key \in {spectral_key} \cup spatial |->
            IF key \in spatial THEN "Quantity[pixel]"
            ELSE self.spectral_wcs.world_axis_object_classes[spectral_key]]

pixel_axis_names(self) ==
    <<self.spectral_wcs.pixel_axis_names[1]>> \o self.spatial_keys

world_axis_names(self) ==
    LET names == IF self.flux_ndim = 2 THEN <<"Offset">>
                 ELSE [i \in 1..(self.flux_ndim - 1) |-> "Offset" \o ToString(i - 1)]
    IN  <<DictGet(UCD_TO_SPECTRAL_NAME,
                  self.spectral_wcs.world_axis_physical_types[1], "")>> \o names

axis_correlation_matrix(self) ==
    [i \in 1..self.flux_ndim |-> [j \in 1..self.flux_ndim |-> i = j]]

(***************************************************************************)
(* Spectrum1D objects (specutils) as to_data reads them.                   *)
(***************************************************************************)
\* The shape of an ndim-dimensional array whose spectral axis is axis sai.
Shape(ndim, sai) == [i \in 1..ndim |-> IF i - 1 = sai THEN SpecLen ELSE SpatLen]

\* The values stored under a label: distinct in every cell and per label.
ValuesFor(label, shape) ==
    LET base == CASE label = "flux"        -> 1
                  [] label = "uncertainty" -> 101
                  [] label = "mask"        -> 201
                  [] OTHER                 -> 301
    IN  ndarray("raw", shape, [idx \in Indices(shape) |-> base + Lin(idx, shape)])

\* A spectrum's boolean mask: every second cell is flagged.
MaskFor(shape) ==
    ndarray("bool", shape, [idx \in Indices(shape) |-> Lin(idx, shape) % 2 = 1])

\* An NDUncertainty of the class UNCERT_REF gives for `utype`.
Uncertainty(utype, values, units) ==
    [kind |-> UNCERT_REF[utype], uncertainty_type |-> utype,
     quantity |-> Quantity(values, units), unit |-> Unit(units)]

UncertaintyUnit(utype) ==
    CASE utype = "std"  -> "Jy"
      [] utype = "var"  -> "Jy2"
      [] utype = "ivar" -> "1 / Jy2"

Spectrum1D(ndim, sai, wcs, utype, masked, meta) ==
    [kind |-> "Spectrum1D",
     flux |-> Quantity(ValuesFor("flux", Shape(ndim, sai)), "Jy"),
     unit |-> Unit("Jy"),
     uncertainty |-> IF utype = NoneS THEN None
                     ELSE Uncertainty(utype, ValuesFor("uncertainty", Shape(ndim, sai)),
                                      UncertaintyUnit(utype)),
     mask |-> IF masked THEN MaskFor(Shape(ndim, sai)) ELSE None,
     wcs |-> wcs,
     spectral_axis_index |-> sai,
     meta |-> meta]

Solutions == {"flat", "tilt", "interior", "jitter"}

\* The coordinate systems a spectrum of this dimensionality can carry: a 1-D
\* spectral system (FITS or generalized), or a full system over all axes.
SpectrumWCS(ndim, sai) ==
    {CoordSys(k, 1, 0, "flat", "em.wl", "m", "spectral", "") : k \in {"WCS", "GWCS"}}
    \cup (IF ndim > 1
          THEN {CoordSys("WCS", ndim, sai, "flat", "em.wl", "m", "spectral", "")}
               \cup {CoordSys("GWCS", ndim, sai, sol, "em.wl", "m", "spectral", "") :
                        sol \in Solutions}
          ELSE {})

\* Contents of the open mapping s.meta, as far as the translator's own keys go:
\* absent, or any value a caller (or an earlier to_object, line 260) left there.
SpectrumMeta ==
    [spectral_axis_index : {NoKey} \cup 0..MaxNdim,
     uncertainty_type : {NoKeyS, "var", "custom"}]

(***************************************************************************)
(* glue Data objects and subsets.                                          *)
(***************************************************************************)
Component(values, units, role) == [data |-> values, units |-> units, role |-> role]

Data(coords, components, meta, shape) ==
    [kind |-> "Data", coords |-> coords, components |-> components,
     meta |-> meta, shape |-> shape]

ndim(d) == Len(d.shape)

\* data.main_components: neither derived nor coordinate components.
main_components(d) == {l \in DOMAIN d.components : d.components[l].role = "main"}

\* data.components: every component.
components(d) == DOMAIN d.components

\* data.find_component_id(label): None unless the label names a component.
find_component_id(d, label) == IF label \in components(d) THEN label ELSE NoneS

Subset(d, subset_state) == [kind |-> "Subset", data |-> d, subset_state |-> subset_state]

SubsetStates == {"first"}

\* data.get_mask(subset_state): TRUE where the subset selects the cell.
get_mask(d, subset_state) ==
    ndarray("bool", d.shape,
            [idx \in Indices(d.shape) |->
                CASE subset_state = "first" -> idx[1] = 0])

Statistics == {"minimum", "maximum", "mean", "median", "sum", "percentile"}

\* data.compute_statistic(statistic, cid, axis=axes, subset_state=...): each
\* cell of the result is the statistic applied to the selected cells that
\* share its index along the axes that are kept.
compute_statistic(d, statistic, label, axes, subset_state) ==
    LET arr   == d.components[label].data
        kept  == KeptPos(Len(arr.shape), axes)
        shape == Take(arr.shape, kept)
        mask  == get_mask(d, subset_state)
        sel(idx) == subset_state = NoneS \/ mask.at[idx]
    IN  ndarray("stat", shape,
                [j \in Indices(shape) |->
                    [stat |-> statistic,
                     over |-> [c \in {idx \in Indices(arr.shape) :
                                         Take(idx, kept) = j /\ sel(idx)}
                               |-> arr.at[c]]]])

(***************************************************************************)
(* SpecutilsHandler.to_data                                                *)
(***************************************************************************)
\* A slip in the test of line 163: the flux dimensionality is not looked at.
NeedsPaddingAnyFlux(obj) == obj.wcs.world_n_dim = 1

\* Line 163: obj.flux.ndim > 1 and obj.wcs.world_n_dim == 1
NeedsPadding(obj) == Len(obj.flux.value.shape) > 1 /\ obj.wcs.world_n_dim = 1

to_data(obj) ==
    LET flux_ndim == Len(obj.flux.value.shape)
        coords == IF NeedsPadding(obj)
                  THEN PaddedSpectrumWCS(obj.wcs, flux_ndim, obj.spectral_axis_index)
                  ELSE obj.wcs
        c1 == "flux" :> Component(obj.flux.value, UnitStr(obj.unit), "main")
        c2 == IF obj.uncertainty # None
              THEN c1 @@ ("uncertainty" :>
                            Component(obj.uncertainty.quantity.value,
                                      UnitStr(obj.uncertainty.unit), "main"))
              ELSE c1
        m2 == IF obj.uncertainty # None
              THEN MetaUpdate(EmptyMeta,
                              [EmptyMeta EXCEPT !.uncertainty_type =
                                                    obj.uncertainty.uncertainty_type])
              ELSE EmptyMeta
        c3 == IF obj.mask # None
              THEN c2 @@ ("mask" :> Component(obj.mask, NoneS, "main"))
              ELSE c2
        m3 == MetaUpdate(m2, [EmptyMeta EXCEPT !.spectral_axis_index =
                                                  obj.spectral_axis_index])
        m4 == MetaUpdate(m3, obj.meta)
    IN  Data(coords, c3, m4, obj.flux.value.shape)

(***************************************************************************)
(* Generalized coordinate systems: pixel_to_world.                         *)
(***************************************************************************)
\* The spectral world coordinate, in units of 1e-8, at spectral pixel p when
\* the other pixel coordinates sum to `others`.
SpectralValue(sol, p, others) ==
    CASE sol = "flat"     -> 100000000 * (1 + p)
      [] sol = "tilt"     -> 100000000 * (1 + p + others)
      [] sol = "interior" -> 100000000 * (1 + p + (IF p = 1 THEN others ELSE 0))
      [] sol = "jitter"   -> 100000000 * (1 + p) + others

\* coords.pixel_to_world(*args), then the SpectralCoord among the outputs:
\* args are pixel arrays in WCS order, one entry per sample point.
pixel_to_world(coords, args) ==
    LET n    == Len(args)
        spos == n - coords.saxis
    IN  [q \in 1..Len(args[1]) |->
            SpectralValue(coords.sol, args[spos][q],
                          SumSeq([j \in 1..n |-> IF j = spos THEN 0 ELSE args[j][q]]))]

\* np.isclose(a, b) with the default rtol = 1e-5 and atol = 1e-8, on integers
\* in units of 1e-8: |a - b| <= atol + rtol * |b|.
IsClose(a, b) == Abs(a - b) <= 1 + (Abs(b) \div 100000)

\* A slip in the test of line 212: the concrete classes instead of the
\* high-level interface.
IsKnownWCSClass(coords) == coords.kind \in {"PaddedSpectrumWCS", "WCS", "GWCS"}

\* isinstance(coords, BaseHighLevelWCS)
IsBaseHighLevelWCS(coords) ==
    coords.kind \in {"PaddedSpectrumWCS", "WCS", "GWCS", "HighLevelWCSWrapper"}

\* wcs.sub([WCSSUB_SPECTRAL]): the 1-D spectral sub-system of a FITS WCS.
WCSSubSpectral(wcs) ==
    LET spos == wcs.world_n_dim - wcs.saxis
    IN  CoordSys("WCS", 1, 0, wcs.sol, wcs.world_axis_physical_types[spos],
                 wcs.world_axis_units[spos],
                 wcs.world_axis_object_components[spos].key,
                 wcs.pixel_axis_names[spos])

(***************************************************************************)
(* SpecutilsHandler._has_homogenous_spectral_solution, for a Data object.  *)
(* The result is "IndexError" when an index is out of range.               *)
(***************************************************************************)
_has_homogenous_spectral_solution(d) ==
    LET spectral_axis_index == d.meta.spectral_axis_index
        data_ndim == ndim(d)
        axes == {i \in 0..(data_ndim - 1) : i # spectral_axis_index}
        \* corners[i + 1] is the row of axis i: one entry per corner.
        corners == [i \in 1..data_ndim |->
                       IF (i - 1) \in axes
                       THEN <<0, d.shape[i] - 1, 0, d.shape[i] - 1>>
                       ELSE <<0, 0, d.shape[i] - 1, d.shape[i] - 1>>]
        spec_coord == pixel_to_world(d.coords, Reverse(corners))
    IN  IF spectral_axis_index >= data_ndim
        THEN "IndexError"
        ELSE IF IsClose(spec_coord[1], spec_coord[2]) /\ IsClose(spec_coord[3], spec_coord[4])
             THEN "True" ELSE "False"

(***************************************************************************)
(* SpecutilsHandler.to_object                                              *)
(***************************************************************************)
Raise(error, warned) ==
    [status |-> "error", error |-> error, branch |-> "", warned |-> warned,
     kwargs |-> None]

\* A slip: lines 209-210 left out.
RequestedStatistic(d, statistic) == statistic

\* Lines 209-210.
EffectiveStatistic(d, statistic) ==
    IF ndim(d) < 2 /\ statistic # NoneS THEN NoneS ELSE statistic

\* Lines 221-222.
CollapseAxes(d) == {i \in 0..(ndim(d) - 1) : i # d.meta.spectral_axis_index}

\* Lines 232-238: the spectral axis read off a homogeneous generalized system.
HomogeneousSpectralAxis(d) ==
    LET spectral_axis_index == d.meta.spectral_axis_index
        len == d.shape[spectral_axis_index + 1]
        wcs_args == [i \in 1..Len(d.shape) |->
                        IF i - 1 = spectral_axis_index
                        THEN [q \in 1..len |-> q - 1]
                        ELSE [q \in 1..len |-> 0]]
    IN  pixel_to_world(d.coords, Reverse(wcs_args))

\* Lines 212-257: the spectral-axis specification, or the error raised.
CoordKwargs(d, statistic) ==
    LET ok(branch, warned, key, value) ==
            [status |-> "ok", error |-> "", branch |-> branch, warned |-> warned,
             kwargs |-> (key :> value)]
    IN  IF statistic = NoneS /\ IsBaseHighLevelWCS(d.coords)
        THEN IF d.coords.kind = "PaddedSpectrumWCS"
             THEN ok("a", FALSE, "wcs", d.coords.spectral_wcs)
             ELSE ok("a", FALSE, "wcs", d.coords)
        ELSE IF statistic # NoneS
        THEN IF ~HasKey(d.meta, "spectral_axis_index")
             THEN Raise("KeyError:spectral_axis_index", FALSE)
             ELSE IF d.coords.kind = "PaddedSpectrumWCS"
             THEN ok("b", FALSE, "wcs", d.coords.spectral_wcs)
             ELSE IF d.coords.kind = "WCS"
             THEN ok("b", FALSE, "wcs", WCSSubSpectral(d.coords))
             ELSE IF d.coords.kind = "GWCS"
             THEN LET h == _has_homogenous_spectral_solution(d)
                  IN  IF h = "IndexError" THEN Raise("IndexError", FALSE)
                      ELSE IF h = "True"
                      THEN ok("b", FALSE, "spectral_axis", HomogeneousSpectralAxis(d))
                      ELSE ok("b", TRUE, "wcs", d.coords)
             ELSE Raise("ValueError:statistic-coords", FALSE)
        ELSE IF d.coords.kind = "SpectralCoordinates"
        THEN ok("c", FALSE, "spectral_axis", d.coords.spectral_axis)
        ELSE Raise("TypeError:coords", FALSE)

\* Lines 262-279: the attributes to read, or the error raised.
\* A selector is None, a str or a ComponentID; the result is a sequence of
\* component labels.
SelectAttributes(d, attribute) ==
    IF attribute.kind = "str"
    THEN IF find_component_id(d, attribute.label) = NoneS
         THEN [error |-> "KeyError:attribute", attrs |-> <<>>]
         ELSE [error |-> "", attrs |-> <<attribute.label>>]
    ELSE IF Cardinality(main_components(d)) = 0
    THEN [error |-> "ValueError:no-attributes", attrs |-> <<>>]
    ELSE IF attribute = None
    THEN IF Cardinality(main_components(d)) = 1
         THEN [error |-> "", attrs |-> <<CHOOSE l \in main_components(d) : TRUE>>]
         ELSE IF \E l \in components(d) : l \in {"flux", "uncertainty"}
         THEN [error |-> "",
               attrs |-> SelectSeq(<<"flux", "uncertainty">>,
                                   LAMBDA x : find_component_id(d, x) # NoneS)]
         ELSE [error |-> "ValueError:ambiguous", attrs |-> <<>>]
    ELSE [error |-> "", attrs |-> <<attribute.label>>]

\* A slip: lines 308-309 left out.
AttributeLabelAsIs(label) == label

\* Lines 306-309.
AttributeLabel(label) == IF label \notin {"flux", "uncertainty"} THEN "flux" ELSE label

\* Lines 287-304: the values and the mask of one attribute.
ValuesAndMask(d, subset_state, statistic, label) ==
    LET mask0 == IF subset_state = NoneS THEN None
                 ELSE np_invert(get_mask(d, subset_state))
    IN  IF ndim(d) > 1 /\ statistic # NoneS
        THEN [values |-> compute_statistic(d, statistic, label, CollapseAxes(d),
                                           subset_state),
              mask |-> IF mask0 # None THEN np_all(mask0, CollapseAxes(d)) ELSE mask0]
        ELSE [values |-> d.components[label].data, mask |-> mask0]

\* Lines 281-323: parse_attributes, one update of data_kwargs per attribute.
RECURSIVE parse_attributes(_, _, _, _, _)
parse_attributes(d, subset_state, statistic, attributes, data_kwargs) ==
    IF attributes = <<>> THEN [error |-> "", data_kwargs |-> data_kwargs]
    ELSE LET label == Head(attributes)
         IN  IF label \notin components(d)
             THEN [error |-> "IncompatibleAttribute", data_kwargs |-> data_kwargs]
             ELSE LET vm == ValuesAndMask(d, subset_state, statistic, label)
                      attribute_label == AttributeLabel(label)
                      values == Quantity(vm.values, d.components[label].units)
                      utype == IF HasKey(d.meta, "uncertainty_type")
                               THEN d.meta.uncertainty_type ELSE "std"
                  IN  IF attribute_label = "uncertainty" /\ utype \notin DOMAIN UNCERT_REF
                      THEN [error |-> "KeyError:uncertainty_type",
                            data_kwargs |-> data_kwargs]
                      ELSE parse_attributes(d, subset_state, statistic, Tail(attributes),
                               ((attribute_label :>
                                   IF attribute_label = "uncertainty"
                                   THEN [kind |-> UNCERT_REF[utype],
                                         uncertainty_type |-> utype,
                                         quantity |-> values, unit |-> values.unit]
                                   ELSE values)
                                @@ ("mask" :> vm.mask)) @@ data_kwargs)

\* Lines 188-328.  The result records what reaches the Spectrum1D constructor
\* (kwargs), or the exception raised, and whether the warning was issued.
to_object(data_or_subset, attribute, statistic0) ==
    LET d == IF data_or_subset.kind = "Subset" THEN data_or_subset.data
             ELSE data_or_subset
        subset_state == IF data_or_subset.kind = "Subset"
                        THEN data_or_subset.subset_state ELSE NoneS
        statistic == EffectiveStatistic(d, statistic0)
        co == CoordKwargs(d, statistic)
        kwargs == ("meta" :> d.meta) @@ co.kwargs
        sel == SelectAttributes(d, attribute)
        parsed == parse_attributes(d, subset_state, statistic, sel.attrs, <<>>)
    IN  IF co.status = "error" THEN co
        ELSE IF sel.error # "" THEN Raise(sel.error, co.warned)
        ELSE IF parsed.error # "" THEN Raise(parsed.error, co.warned)
        ELSE [co EXCEPT !.kwargs = parsed.data_kwargs @@ kwargs]

(***************************************************************************)
(* Inputs of the callers.                                                  *)
(***************************************************************************)
Labels == {"flux", "uncertainty", "mask", "sky"}

\* attribute=: None, a name, or a ComponentID (named here by its label).
Selectors == {None} \cup [kind : {"str", "ComponentID"}, label : Labels]

\* glue_astronomy.spectral_coordinates.SpectralCoordinates: a bare list of
\* spectral coordinates; a glue Coordinates, not a BaseHighLevelWCS.
SpectralCoordinates ==
    [kind |-> "SpectralCoordinates",
     spectral_axis |-> [q \in 1..SpecLen |-> SpectralValue("flat", q - 1, 0)]]

\* The coordinate systems of a Data object a caller builds directly.
UserCoords(n, sai) ==
    {None}
    \cup {CoordSys(k, n, sai, "flat", "em.wl", "m", "spectral", "") :
             k \in {"HighLevelWCSWrapper", "WCS", "GWCS"}}
    \cup (IF n = 1 THEN {SpectralCoordinates} ELSE {})

\* The components of a Data object a caller builds directly: any set of main
\* components, and possibly a derived component labelled 'flux'.
UserComponents(shape) ==
    {[l \in main \cup derived |->
         Component(ValuesFor(l, shape), IF l = "flux" THEN "Jy" ELSE NoneS,
                   IF l \in main THEN "main" ELSE "derived")] :
        main \in SUBSET Labels,
        derived \in {{}, {"flux"}}}

UserData(n, sai, coords, comps, logged) ==
    Data(coords, comps,
         IF logged THEN [EmptyMeta EXCEPT !.spectral_axis_index = sai] ELSE EmptyMeta,
         IF DOMAIN comps = {} THEN <<>> ELSE Shape(n, sai))

(***************************************************************************)
(* The state machine: callers construct objects and call the translator.   *)
(***************************************************************************)
Init ==
    /\ spectrum = None
    /\ data = None
    /\ call = None
    /\ result = None
    /\ adapter = None

Idle == spectrum = None /\ data = None /\ adapter = None

\* A caller has a spectrum in hand.
NewSpectrum ==
    /\ Idle
    /\ \E n \in 1..MaxNdim : \E sai \in 0..(n - 1) :
       \E wcs \in SpectrumWCS(n, sai), utype \in {NoneS, "std", "var", "ivar"},
          masked \in BOOLEAN, meta \in SpectrumMeta :
          spectrum' = Spectrum1D(n, sai, wcs, utype, masked, meta)
    /\ UNCHANGED <<data, call, result, adapter>>

\* data = to_data(spectrum)
CallToData ==
    /\ spectrum # None
    /\ data = None
    /\ data' = to_data(spectrum)
    /\ UNCHANGED <<spectrum, call, result, adapter>>

\* A caller builds a Data object without the translator.
NewData ==
    /\ Idle
    /\ \E n \in 1..MaxNdim : \E sai \in 0..(n - 1) :
       \E coords \in UserCoords(n, sai), comps \in UserComponents(Shape(n, sai)),
          logged \in BOOLEAN :
          /\ \E l \in DOMAIN comps : comps[l].role = "main" \/ DOMAIN comps = {}
          /\ data' = UserData(n, sai, coords, comps, logged)
    /\ UNCHANGED <<spectrum, call, result, adapter>>

\* result = to_object(data or a subset of it, attribute, statistic)
CallToObject ==
    /\ data # None
    /\ result = None
    /\ \E subset_state \in SubsetStates \cup {NoneS}, attribute \in Selectors,
          statistic \in Statistics \cup {NoneS} :
          /\ call' = [subset_state |-> subset_state, attribute |-> attribute,
                      statistic |-> statistic]
          /\ result' = to_object(IF subset_state = NoneS THEN data
                                 ELSE Subset(data, subset_state),
                                 attribute, statistic)
    /\ UNCHANGED <<spectrum, data, adapter>>

\* PaddedSpectrumWCS(wcs, ndim, spectral_axis_index), constructed directly.
ConstructAdapter ==
    /\ Idle
    /\ \E n \in 1..MaxPadDim : \E sai \in 0..(n - 1) :
       \E phys \in DOMAIN UCD_TO_SPECTRAL_NAME \cup {"custom:other", NoneS},
          unit \in {"m", "Hz"}, key \in {"spectral", "spatial"},
          pixname \in {"", "lambda"}, k \in {"WCS", "GWCS"} :
          adapter' = PaddedSpectrumWCS(CoordSys(k, 1, 0, "flat", phys, unit, key, pixname),
                                       n, sai)
    /\ UNCHANGED <<spectrum, data, call, result>>

\* The caller drops its objects.
Reset ==
    /\ ~Idle
    /\ spectrum' = None /\ data' = None /\ call' = None /\ result' = None
    /\ adapter' = None

Next ==
    \/ NewSpectrum
    \/ CallToData
    \/ NewData
    \/ CallToObject
    \/ ConstructAdapter
    \/ Reset

Spec == Init /\ [][Next]_vars

(***************************************************************************)
(* Vocabulary of the properties.                                           *)
(***************************************************************************)
\* to_object has been called on `data` with the arguments in `call`.
Called == result # None

\* data is what to_data returned for spectrum.
Translated == spectrum # None /\ data # None

\* A statistic is in effect: one was requested and the container has at least
\* two dimensions.
StatisticInEffect == Called /\ call.statistic # NoneS /\ Len(data.shape) >= 2

\* The classes that provide the high-level coordinate interface.
HighLevelKinds == {"PaddedSpectrumWCS", "WCS", "GWCS", "HighLevelWCSWrapper"}

CoordinateErrors == {"ValueError:statistic-coords", "TypeError:coords"}

\* The array behind the flux or the uncertainty entry of a keyword set.
ValuesOf(kw, key) == IF key = "flux" THEN kw.flux.value ELSE kw.uncertainty.quantity.value

SameArray(a, b) == a.dtype = b.dtype /\ a.shape = b.shape /\ a.at = b.at

\* The array v holds the values of component comp: as they are, or cell by
\* cell under a statistic.
TakenFrom(v, comp) ==
    IF v.dtype = "stat"
    THEN /\ \A j \in DOMAIN v.at : \A c \in DOMAIN v.at[j].over :
                v.at[j].over[c] = comp.data.at[c]
         /\ \A j \in DOMAIN v.at : v.at[j].stat = call.statistic
    ELSE SameArray(v, comp.data)

\* The spectral world coordinate at a pixel given in array order.
SpectralAt(coords, pix) ==
    SpectralValue(coords.sol, pix[coords.saxis + 1],
                  SumSeq([i \in 1..Len(pix) |-> IF i = coords.saxis + 1 THEN 0 ELSE pix[i]]))

\* The pixel with axis k at its first or last sample and every other axis at
\* its first or last sample.
Corner(shape, k, klast, otherslast) ==
    [i \in 1..Len(shape) |->
        IF i = k + 1 THEN (IF klast THEN shape[i] - 1 ELSE 0)
        ELSE (IF otherslast THEN shape[i] - 1 ELSE 0)]

\* The spectral coordinate agrees between the two corners at the first sample
\* of axis k, and between the two corners at its last sample.
CornersAgree(d, k) ==
    /\ IsClose(SpectralAt(d.coords, Corner(d.shape, k, FALSE, FALSE)),
               SpectralAt(d.coords, Corner(d.shape, k, FALSE, TRUE)))
    /\ IsClose(SpectralAt(d.coords, Corner(d.shape, k, TRUE, FALSE)),
               SpectralAt(d.coords, Corner(d.shape, k, TRUE, TRUE)))

\* to_object collapses a container with a generalized coordinate system.
GWCSCollapse ==
    /\ StatisticInEffect
    /\ data.coords.kind = "GWCS"
    /\ data.meta.spectral_axis_index \in 0..(Len(data.shape) - 1)

(***************************************************************************)
(* C1.  With a statistic in effect every selected attribute is reduced     *)
(* along exactly the axes other than meta['spectral_axis_index'], and a    *)
(* subset's inverted mask is reduced by AND over the same axes, so values   *)
(* and mask are 1-D with the container's length along that axis; with no   *)
(* subset the mask is absent; with no statistic in effect values and        *)
(* inverted mask keep the container's full shape.                           *)
(***************************************************************************)
C1_CollapseAlongNonSpectralAxes ==
    (Called /\ result.status = "ok") =>
        LET kw == result.kwargs
            k  == data.meta.spectral_axis_index
            ss == call.subset_state
        IN  \A key \in {"flux", "uncertainty"} \cap DOMAIN kw :
                LET v == ValuesOf(kw, key)
                IN  IF StatisticInEffect
                    THEN /\ k \in 0..(Len(data.shape) - 1)
                         /\ v.dtype = "stat"
                         /\ v.shape = <<data.shape[k + 1]>>
                         /\ \A j \in Indices(v.shape) :
                               DOMAIN v.at[j].over =
                                   {idx \in Indices(data.shape) :
                                       /\ idx[k + 1] = j[1]
                                       /\ (ss = NoneS \/ get_mask(data, ss).at[idx])}
                         /\ IF ss = NoneS THEN kw.mask = None
                            ELSE /\ kw.mask.shape = v.shape
                                 /\ \A j \in Indices(v.shape) :
                                       kw.mask.at[j] =
                                           \A idx \in Indices(data.shape) :
                                               idx[k + 1] = j[1] =>
                                                   ~get_mask(data, ss).at[idx]
                    ELSE /\ v.dtype # "stat"
                         /\ v.shape = data.shape
                         /\ IF ss = NoneS THEN kw.mask = None
                            ELSE kw.mask = np_invert(get_mask(data, ss))

(***************************************************************************)
(* C2.  to_object raises a coordinate-kind error, and hands over no         *)
(* spectrum, exactly when (1) a statistic is in effect and the coordinate   *)
(* system is none of Padding Adapter, full WCS, generalized WCS, or (2) no  *)
(* statistic is in effect and it is neither high-level-capable nor a bare   *)
(* spectral-coordinate list; otherwise the branch is a, b or c in that      *)
(* priority order.                                                          *)
(***************************************************************************)
C2_CoordinateKindErrors ==
    Called =>
        LET kind  == data.coords.kind
            eff   == StatisticInEffect
            case1 == eff /\ kind \notin {"PaddedSpectrumWCS", "WCS", "GWCS"}
            case2 == ~eff /\ kind \notin HighLevelKinds /\ kind # "SpectralCoordinates"
        IN  /\ (case1 \/ case2) => (result.status = "error" /\ result.kwargs = None)
            /\ (result.error \in CoordinateErrors)
                   <=> ((case1 /\ HasKey(data.meta, "spectral_axis_index")) \/ case2)
            /\ (result.error = "ValueError:statistic-coords") => case1
            /\ (result.error = "TypeError:coords") => case2
            /\ (result.status = "ok") =>
                   result.branch = (IF ~eff /\ kind \in HighLevelKinds THEN "a"
                                    ELSE IF eff THEN "b" ELSE "c")

C2_Witness ==
    /\ StatisticInEffect
    /\ data.coords.kind = "HighLevelWCSWrapper"
    /\ result.error = "ValueError:statistic-coords"

C4_DetectsEveryVariation ==
    (GWCSCollapse /\ data.meta.spectral_axis_index = data.coords.saxis) =>
        LET k == data.coords.saxis
            independent ==
                \A p \in Indices(data.shape), q \in Indices(data.shape) :
                    p[k + 1] = q[k + 1] =>
                        IsClose(SpectralAt(data.coords, p), SpectralAt(data.coords, q))
        IN  /\ independent =>
                /\ ~result.warned
                /\ result.status = "ok" => "spectral_axis" \in DOMAIN result.kwargs
            /\ ~independent =>
                /\ result.warned
                /\ result.status = "ok" =>
                       ("wcs" \in DOMAIN result.kwargs /\ result.kwargs.wcs = data.coords)

(***************************************************************************)
(* What the code establishes in the case of C4: the solution is found       *)
(* homogeneous exactly when the spectral coordinate is close between the    *)
(* two corners at the first sample of the axis named by                     *)
(* meta['spectral_axis_index'] and between the two corners at its last      *)
(* sample; variation anywhere else goes unnoticed.                          *)
(***************************************************************************)
C4_CornerTest ==
    Called =>
        IF GWCSCollapse
        THEN LET k   == data.meta.spectral_axis_index
                 kw  == result.kwargs
                 row == [q \in 1..data.shape[k + 1] |->
                            SpectralAt(data.coords,
                                       [i \in 1..Len(data.shape) |->
                                           IF i = k + 1 THEN q - 1 ELSE 0])]
             IN  /\ result.warned <=> ~CornersAgree(data, k)
                 /\ (result.status = "ok" /\ CornersAgree(data, k)) =>
                        /\ "wcs" \notin DOMAIN kw
                        /\ "spectral_axis" \in DOMAIN kw
                        /\ kw.spectral_axis = row
                 /\ (result.status = "ok" /\ ~CornersAgree(data, k)) =>
                        /\ "spectral_axis" \notin DOMAIN kw
                        /\ "wcs" \in DOMAIN kw
                        /\ kw.wcs = data.coords
        ELSE ~result.warned

(***************************************************************************)
(* C5.  to_data stores a Padding Adapter, wrapping the spectrum's system    *)
(* and sized to the flux, exactly when the flux has more than one dimension *)
(* and the system reports one world dimension, and the system itself        *)
(* otherwise; to_object on a container with a Padding Adapter hands the     *)
(* inner spectral system over as the WCS, with or without a statistic, and  *)
(* raises no coordinate-kind error.                                         *)
(***************************************************************************)
C5_PaddingRoundTrip ==
    /\ Translated =>
           IF Len(spectrum.flux.value.shape) > 1 /\ spectrum.wcs.world_n_dim = 1
           THEN /\ data.coords.kind = "PaddedSpectrumWCS"
                /\ data.coords.spectral_wcs = spectrum.wcs
                /\ data.coords.flux_ndim = Len(spectrum.flux.value.shape)
                /\ data.coords.spectral_axis_index = spectrum.spectral_axis_index
           ELSE data.coords = spectrum.wcs
    /\ (Called /\ data.coords.kind = "PaddedSpectrumWCS") =>
           /\ result.error \notin CoordinateErrors
           /\ result.status = "ok" =>
                  /\ "wcs" \in DOMAIN result.kwargs
                  /\ "spectral_axis" \notin DOMAIN result.kwargs
                  /\ result.kwargs.wcs = data.coords.spectral_wcs
                  /\ result.kwargs.wcs.kind # "PaddedSpectrumWCS"

C5_Witness ==
    /\ Translated
    /\ StatisticInEffect
    /\ data.coords.kind = "PaddedSpectrumWCS"
    /\ result.status = "ok"
    /\ result.kwargs.wcs = spectrum.wcs

(***************************************************************************)
(* C6.  After to_data(s), for a spectrum s with an uncertainty of kind k    *)
(* and whatever s.meta holds, the container's meta['uncertainty_type'] is   *)
(* k.                                                                       *)
(***************************************************************************)
C6_UncertaintyTypeKept ==
    (Translated /\ spectrum.uncertainty # None) =>
        data.meta.uncertainty_type = spectrum.uncertainty.uncertainty_type

(***************************************************************************)
(* C7.  For a container with fewer than two dimensions the statistic is     *)
(* ignored: to_object returns what it returns for statistic None, nothing   *)
(* is reduced, and to_object(to_data(s)) for a spectrum with 1-D flux, no   *)
(* mask and no uncertainty gives back the flux values and the unit of s.    *)
(***************************************************************************)
C7_StatisticIgnoredBelow2D ==
    (Called /\ Len(data.shape) < 2) =>
        /\ result = to_object(IF call.subset_state = NoneS THEN data
                              ELSE Subset(data, call.subset_state),
                              call.attribute, NoneS)
        /\ result.status = "ok" =>
               /\ result.branch \in {"a", "c"}
               /\ \A key \in {"flux", "uncertainty"} \cap DOMAIN result.kwargs :
                      /\ ValuesOf(result.kwargs, key).dtype # "stat"
                      /\ ValuesOf(result.kwargs, key).shape = data.shape
               /\ result.kwargs.mask # None => result.kwargs.mask.shape = data.shape
        /\ (/\ Translated
            /\ spectrum.mask = None
            /\ spectrum.uncertainty = None
            /\ call.attribute = None
            /\ call.subset_state = NoneS) =>
               /\ result.status = "ok"
               /\ SameArray(result.kwargs.flux.value, spectrum.flux.value)
               /\ result.kwargs.flux.unit = spectrum.unit
               /\ result.kwargs.wcs = spectrum.wcs

C7_Witness ==
    /\ Called
    /\ Translated
    /\ Len(data.shape) = 1
    /\ call.statistic = "mean"
    /\ call.attribute = None
    /\ spectrum.mask = None
    /\ spectrum.uncertainty = None
    /\ result.status = "ok"
    /\ SameArray(result.kwargs.flux.value, spectrum.flux.value)

(***************************************************************************)
(* C8.  A Padding Adapter of target dimensionality n >= 1: pixel_n_dim and  *)
(* world_n_dim are n; the physical types, units, object components, pixel   *)
(* axis names and world axis names have n entries each, the first from the  *)
(* wrapped system (the world axis name being the spectral name of its       *)
(* physical type) and, for physical types and units, the others absent;     *)
(* there are n-1 extra axes, 'spatial' for n = 2 and 'spatial0' ..          *)
(* 'spatial(n-2)' otherwise, each with an object class; the correlation     *)
(* matrix is the n x n identity.                                            *)
(***************************************************************************)
AdapterInvariant(a) ==
    LET n == a.flux_ndim
        w == a.spectral_wcs
    IN  /\ n >= 1
        /\ pixel_n_dim(a) = n /\ world_n_dim(a) = n
        /\ Len(world_axis_physical_types(a)) = n
        /\ Len(world_axis_units(a)) = n
        /\ Len(world_axis_object_components(a)) = n
        /\ Len(pixel_axis_names(a)) = n
        /\ Len(world_axis_names(a)) = n
        /\ world_axis_physical_types(a)[1] = w.world_axis_physical_types[1]
        /\ world_axis_units(a)[1] = w.world_axis_units[1]
        /\ world_axis_object_components(a)[1] = w.world_axis_object_components[1]
        /\ pixel_axis_names(a)[1] = w.pixel_axis_names[1]
        /\ world_axis_names(a)[1] =
               (IF w.world_axis_physical_types[1] \in DOMAIN UCD_TO_SPECTRAL_NAME
                THEN UCD_TO_SPECTRAL_NAME[w.world_axis_physical_types[1]] ELSE "")
        /\ \A i \in 2..n : /\ world_axis_physical_types(a)[i] = NoneS
                           /\ world_axis_units(a)[i] = NoneS
        /\ Len(a.spatial_keys) = n - 1
        /\ IF n = 2 THEN a.spatial_keys = <<"spatial">>
           ELSE \A i \in 0..(n - 2) : a.spatial_keys[i + 1] = "spatial" \o ToString(i)
        /\ \A i \in 1..(n - 1) :
              /\ a.spatial_keys[i] \in DOMAIN world_axis_object_classes(a)
              /\ world_axis_object_components(a)[i + 1].key = a.spatial_keys[i]
              /\ pixel_axis_names(a)[i + 1] = a.spatial_keys[i]
        /\ Len(axis_correlation_matrix(a)) = n
        /\ \A i \in 1..n :
              /\ Len(axis_correlation_matrix(a)[i]) = n
              /\ \A j \in 1..n : axis_correlation_matrix(a)[i][j] = (i = j)

C8_AdapterInvariant ==
    /\ adapter # None => AdapterInvariant(adapter)
    /\ (data # None /\ data.coords.kind = "PaddedSpectrumWCS") =>
           AdapterInvariant(data.coords)

C8_Witness ==
    /\ adapter # None
    /\ adapter.flux_ndim = 3
    /\ adapter.spatial_keys = <<"spatial0", "spatial1">>
    /\ world_axis_names(adapter) = <<"Wavelength", "Offset0", "Offset1">>

(***************************************************************************)
(* C9.  After to_data(s) the container's meta['spectral_axis_index'] is     *)
(* s.spectral_axis_index, for every spectrum s, one whose meta already      *)
(* carries a 'spectral_axis_index' entry included; so the axes to_object    *)
(* collapses are the container's non-spectral axes.                         *)
(***************************************************************************)
C9_SpectralAxisIndexLogged ==
    /\ Translated => data.meta.spectral_axis_index = spectrum.spectral_axis_index
    /\ (Translated /\ StatisticInEffect) =>
           CollapseAxes(data) =
               {i \in 0..(Len(data.shape) - 1) : i # spectrum.spectral_axis_index}

(***************************************************************************)
(* C10.  Every keyword set that reaches the spectrum constructor has a flux *)
(* entry; an uncertainty entry never comes without one.                     *)
(***************************************************************************)
C10_FluxAlwaysPresent ==
    (Called /\ result.status = "ok") => "flux" \in DOMAIN result.kwargs

====
